---- MODULE Spec2Model ----
(***************************************************************************)
(* Model of limiton.py: the bounded-instance registries LimitonMeta        *)
(* (type-level attachment) and LimitonFactory (factory attachment), and    *)
(* the plain singleton variants that share the module-level table.         *)
(***************************************************************************)
EXTENDS Integers, Sequences, FiniteSets, TLC

\* ---------------------------------------------------------------- bounds
MaxCap == 3          \* largest capacity value offered to a registry
MaxCalls == 4        \* acquire calls recorded, over all registries
MaxAttempts == 3     \* construction attempts recorded for the singleton variants

Keys == {"k1", "k2"}             \* registry keys: a class or a factory object
Styles == {"meta", "factory"}
Classes == {"A", "B"}            \* product classes of the singleton variants
Variants == {"SingletonMeta", "SingletonSuper", "SingletonFactory"}
Factories == {"f1", "f2"}        \* SingletonFactory objects
Threads == {"t1", "t2"}          \* threads calling concurrently

Inst == Keys \X (1..(MaxCalls + 1))
NoInst == <<"none", 0>>

VARIABLES
    regs,        \* per key: creation status, style, _maxlen, _pump, _refs
    rc,          \* strong reference count of every instance
    handles,     \* per key: instances for which a weakref.proxy was returned
    log,         \* per key: the outcome of every acquire call, in order
    ctor,        \* per key: number of constructor invocations
    admitted,    \* per key: number of instances appended to _refs
    evicted,     \* per key: number of admissions made at full occupancy
    globals,     \* names bound in the module namespace
    singletons,  \* the module-level table __singletons: class -> instance
    classdef,    \* outcome of the class statements of the singleton variants
    sfactory,    \* SingletonFactory objects: factory -> _ctype
    slog,        \* outcome of every construction attempt of a singleton variant
    thr          \* per thread: its position inside the call it is executing

vars == <<regs, rc, handles, log, ctor, admitted, evicted,
          globals, singletons, classdef, sfactory, slog, thr>>
limvars == <<regs, rc, handles, log, ctor, admitted, evicted>>
sglvars == <<globals, singletons, classdef, sfactory, slog>>

\* ------------------------------------------------------- capacity values
\* A value supplied as _maxlen / maxlen: absent (default), an int, an object
\* with __index__ returning v, or an object without __index__ (e.g. a float).
MaxlenValues ==
    {[t |-> "absent", v |-> 0]}
    \cup {[t |-> "int", v |-> n] : n \in -1..MaxCap}
    \cup {[t |-> "index", v |-> n] : n \in 0..1}
    \cup {[t |-> "noindex", v |-> 1]}
PumpValues == {"absent", "False", "True"}

NoValue == [t |-> "none", v |-> 0]

\* A key before its class statement / factory construction has run.  given
\* remembers the capacity value that was supplied when it runs.
\* base is the LimitonMeta class a class was derived from, if any.
Undefined == [st |-> "undefined", style |-> "none", err |-> "none", given |-> NoValue,
              maxlen |-> 0, pump |-> FALSE, refs |-> <<>>, base |-> "none"]

Registry(style, m, maxlen, pump) ==
    [st |-> "created", style |-> style, err |-> "none", given |-> m,
     maxlen |-> maxlen, pump |-> pump, refs |-> <<>>, base |-> "none"]

\* The statement raised: no class / factory object is bound to the key.
Raised(style, m, err) ==
    [Undefined EXCEPT !.st = "failed", !.style = style, !.err = err, !.given = m]

\* LimitonMeta.__new__(cls, name, bases, attrs) with attrs['_maxlen'] = m and
\* attrs['_pump'] = p (either may be absent).
LimitonMeta__new__(m, p) ==
    LET pump == IF p = "absent" THEN FALSE ELSE p = "True"
    IN  IF m.t = "absent" THEN Registry("meta", m, 1, pump)
        ELSE IF m.t = "noindex" THEN Raised("meta", m, "AttributeError")
        ELSE IF m.v < 1 THEN Raised("meta", m, "ValueError")
        ELSE Registry("meta", m, m.v, pump)

\* Variant of LimitonFactory.__init__ that compares with 0 instead of 1.
LimitonFactory__init__AcceptsZero(m, p) ==
    LET pump == IF p = "absent" THEN FALSE ELSE p = "True"
        maxlen == IF m.t = "absent" THEN 1 ELSE m.v
    IN  IF m.t = "noindex" THEN Raised("factory", m, "AttributeError")
        ELSE IF maxlen < 0 THEN Raised("factory", m, "ValueError")
        ELSE Registry("factory", m, maxlen, pump)

\* LimitonFactory.__init__(self, ctype, *, maxlen=m, pump=p); an absent
\* option takes its default (maxlen=1, pump=False).
LimitonFactory__init__(m, p) ==
    LET pump == IF p = "absent" THEN FALSE ELSE p = "True"
        maxlen == IF m.t = "absent" THEN 1 ELSE m.v
    IN  IF m.t = "noindex" THEN Raised("factory", m, "AttributeError")
        ELSE IF maxlen < 1 THEN Raised("factory", m, "ValueError")
        ELSE Registry("factory", m, maxlen, pump)

\* ------------------------------------------------------------ the deque
\* Variants of deque_append: a deque built without maxlen, one that discards
\* its rightmost item, and one that empties itself when full.
deque_append_Unbounded(refs, x, maxlen) == Append(refs, x)

deque_append_DropsNewest(refs, x, maxlen) ==
    IF maxlen = 0 THEN <<>>
    ELSE IF Len(refs) >= maxlen THEN Append(SubSeq(refs, 1, Len(refs) - 1), x)
    ELSE Append(refs, x)

deque_append_ClearsWhenFull(refs, x, maxlen) ==
    IF maxlen = 0 THEN <<>>
    ELSE IF Len(refs) >= maxlen THEN <<x>>
    ELSE Append(refs, x)

\* deque([], maxlen=n).append(x): a full deque discards its leftmost item.
deque_append(refs, x, maxlen) ==
    IF maxlen = 0 THEN <<>>
    ELSE IF Len(refs) >= maxlen THEN Append(Tail(refs), x)
    ELSE Append(refs, x)

\* Variant of weakref_proxy: the caller receives a strong reference.
weakref_proxy_Strong(count, inst) == [count EXCEPT ![inst] = @ + 1]

\* weakref.proxy(instance) adds no strong reference to the instance.
weakref_proxy(count, inst) == count

Range(s) == {s[i] : i \in DOMAIN s}

\* Reference counts after a call that constructed inst and appended it:
\* the local variable (+1), the deque slot (+1), the proxy, the items the
\* deque discarded (-1 each), and the local variable going out of scope (-1).
RefsAfterAdmit(count, old, new, inst) ==
    LET c1 == [count EXCEPT ![inst] = 1]
        c2 == [i \in Inst |->
                 IF i = inst THEN c1[i] + (IF inst \in Range(new) THEN 1 ELSE 0)
                 ELSE IF i \in Range(old) /\ i \notin Range(new) THEN c1[i] - 1
                 ELSE c1[i]]
        c3 == weakref_proxy(c2, inst)
    IN  [c3 EXCEPT ![inst] = @ - 1]

\* ------------------------------------------------------------- acquire
\* Outcome of one call: the new _refs, the result kind and instance, and
\* whether the constructor was invoked.
Outcome(refs, kind, inst, invoked) ==
    [refs |-> refs, kind |-> kind, inst |-> inst, invoked |-> invoked]

\* Variant of LimitonMeta.__call__ whose capacity test is <= instead of <.
LimitonMeta__call__OffByOne(cls, fresh, raises) ==
    IF Len(cls.refs) <= cls.maxlen \/ cls.pump
    THEN IF raises
         THEN Outcome(cls.refs, "ctor_error", NoInst, TRUE)
         ELSE Outcome(deque_append(cls.refs, fresh, cls.maxlen), "new", fresh, TRUE)
    ELSE IF cls.maxlen = 1
         THEN Outcome(cls.refs, "existing", cls.refs[1], FALSE)
         ELSE Outcome(cls.refs, "IndexError", NoInst, FALSE)

\* Variant of LimitonMeta.__call__ that tries the capacity-1 reuse rule
\* before the _pump rule.
LimitonMeta__call__ReuseFirst(cls, fresh, raises) ==
    IF cls.maxlen = 1 /\ Len(cls.refs) = 1
    THEN Outcome(cls.refs, "existing", cls.refs[1], FALSE)
    ELSE IF Len(cls.refs) < cls.maxlen \/ cls.pump
    THEN IF raises
         THEN Outcome(cls.refs, "ctor_error", NoInst, TRUE)
         ELSE Outcome(deque_append(cls.refs, fresh, cls.maxlen), "new", fresh, TRUE)
    ELSE Outcome(cls.refs, "IndexError", NoInst, FALSE)

\* LimitonMeta.__call__(cls, *args): fresh is the identity object.__new__
\* would give; raises says that object.__new__ rejects the arguments.
LimitonMeta__call__(cls, fresh, raises) ==
    IF Len(cls.refs) < cls.maxlen \/ cls.pump
    THEN IF raises
         THEN Outcome(cls.refs, "ctor_error", NoInst, TRUE)
         ELSE Outcome(deque_append(cls.refs, fresh, cls.maxlen), "new", fresh, TRUE)
    ELSE IF cls.maxlen = 1
         THEN Outcome(cls.refs, "existing", cls.refs[1], FALSE)
         ELSE Outcome(cls.refs, "IndexError", NoInst, FALSE)

\* Variant of LimitonFactory.__call__ whose capacity test is <= instead of <.
LimitonFactory__call__OffByOne(self, fresh, raises) ==
    IF Len(self.refs) <= self.maxlen \/ self.pump
    THEN IF raises
         THEN Outcome(self.refs, "ctor_error", NoInst, TRUE)
         ELSE Outcome(deque_append(self.refs, fresh, self.maxlen), "new", fresh, TRUE)
    ELSE Outcome(self.refs, "IndexError", NoInst, FALSE)

\* Variant of LimitonFactory.__call__ that makes room before constructing.
LimitonFactory__call__EvictsFirst(self, fresh, raises) ==
    LET room == IF Len(self.refs) >= self.maxlen THEN Tail(self.refs) ELSE self.refs
    IN  IF Len(self.refs) < self.maxlen \/ self.pump
        THEN IF raises
             THEN Outcome(room, "ctor_error", NoInst, TRUE)
             ELSE Outcome(Append(room, fresh), "new", fresh, TRUE)
        ELSE Outcome(self.refs, "IndexError", NoInst, FALSE)

\* Variant of LimitonFactory.__call__ that releases the oldest instance when
\* it rejects a call.
LimitonFactory__call__DropsOnReject(self, fresh, raises) ==
    IF Len(self.refs) < self.maxlen \/ self.pump
    THEN IF raises
         THEN Outcome(self.refs, "ctor_error", NoInst, TRUE)
         ELSE Outcome(deque_append(self.refs, fresh, self.maxlen), "new", fresh, TRUE)
    ELSE Outcome(Tail(self.refs), "IndexError", NoInst, FALSE)

\* LimitonFactory.__call__(self, *args): raises says that self._ctype raises.
LimitonFactory__call__(self, fresh, raises) ==
    IF Len(self.refs) < self.maxlen \/ self.pump
    THEN IF raises
         THEN Outcome(self.refs, "ctor_error", NoInst, TRUE)
         ELSE Outcome(deque_append(self.refs, fresh, self.maxlen), "new", fresh, TRUE)
    ELSE Outcome(self.refs, "IndexError", NoInst, FALSE)

Call(r, fresh, raises) ==
    IF r.style = "meta" THEN LimitonMeta__call__(r, fresh, raises)
    ELSE LimitonFactory__call__(r, fresh, raises)

\* The identity of the next instance constructed for key k.
Fresh(k, Ad) == <<k, Ad[k] + 1>>

\* Variant of Holder: a derived class finds the deque of its base class.
Holder_Inherited(R, k) == IF R[k].base # "none" THEN R[k].base ELSE k

\* The key whose deque the attribute _refs of key k names: __new__ stores a
\* new deque in the attrs of every class it builds, derived or not (line 56),
\* and __init__ stores one in every factory object (line 84).
Holder(R, k) == k

\* The effect of one acquire call on key k on every registry variable.
ApplyCall(k, raises, R, C, H, L, N, Ad, Ev) ==
    LET r == [R[k] EXCEPT !.refs = R[Holder(R, k)].refs]
        o == Call(r, Fresh(k, Ad), raises)
        full == Len(r.refs) = r.maxlen
    IN  [regs |-> [R EXCEPT ![Holder(R, k)].refs = o.refs],
         rc |-> IF o.kind = "new" THEN RefsAfterAdmit(C, r.refs, o.refs, o.inst)
                ELSE IF o.kind = "existing" THEN weakref_proxy(C, o.inst)
                ELSE C,
         handles |-> IF o.kind \in {"new", "existing"}
                     THEN [H EXCEPT ![k] = @ \cup {o.inst}] ELSE H,
         log |-> [L EXCEPT ![k] = Append(@, [kind |-> o.kind, inst |-> o.inst,
                                              invoked |-> o.invoked,
                                              before |-> r.refs, after |-> o.refs])],
         ctor |-> [N EXCEPT ![k] = @ + (IF o.invoked THEN 1 ELSE 0)],
         admitted |-> [Ad EXCEPT ![k] = @ + (IF o.kind = "new" THEN 1 ELSE 0)],
         evicted |-> [Ev EXCEPT ![k] = @ + (IF o.kind = "new" /\ full THEN 1 ELSE 0)]]

\* --------------------------------------------------------------- actions
InitLim ==
    /\ regs = [k \in Keys |-> Undefined]
    /\ rc = [i \in Inst |-> 0]
    /\ handles = [k \in Keys |-> {}]
    /\ log = [k \in Keys |-> <<>>]
    /\ ctor = [k \in Keys |-> 0]
    /\ admitted = [k \in Keys |-> 0]
    /\ evicted = [k \in Keys |-> 0]

InitSgl ==
    /\ globals = {}
    /\ classdef = [v \in Variants |-> "pending"]
    /\ singletons = [c \in Classes |-> NoInst]
    /\ sfactory = [f \in Factories |-> "none"]
    /\ slog = <<>>

\* A thread that is not inside a call.
Idle == [pc |-> "idle", raises |-> FALSE, inst |-> NoInst,
         via |-> "none", who |-> "none", cls |-> "none"]

InitThr == thr = [t \in Threads |-> Idle]

Init == InitLim /\ InitSgl /\ InitThr

\* class K(metaclass=LimitonMeta): _maxlen = m; _pump = p
DefineClass(k, m, p) ==
    /\ regs[k].st = "undefined"
    /\ regs' = [regs EXCEPT ![k] = LimitonMeta__new__(m, p)]
    /\ UNCHANGED <<rc, handles, log, ctor, admitted, evicted>>
    /\ UNCHANGED sglvars
    /\ UNCHANGED thr

\* K = LimitonFactory(ctype, maxlen=m, pump=p)
MakeFactory(k, m, p) ==
    /\ regs[k].st = "undefined"
    /\ regs' = [regs EXCEPT ![k] = LimitonFactory__init__(m, p)]
    /\ UNCHANGED <<rc, handles, log, ctor, admitted, evicted>>
    /\ UNCHANGED sglvars
    /\ UNCHANGED thr

\* class K(B): _maxlen = m; _pump = p, for a LimitonMeta class B: the
\* metaclass is inherited, so LimitonMeta.__new__ runs on K's own attrs.
DefineSubclass(k, b, m, p) ==
    /\ regs[k].st = "undefined"
    /\ b # k /\ regs[b].st = "created" /\ regs[b].style = "meta"
    /\ regs' = [regs EXCEPT ![k] = [LimitonMeta__new__(m, p) EXCEPT !.base = b]]
    /\ UNCHANGED <<rc, handles, log, ctor, admitted, evicted>>
    /\ UNCHANGED sglvars
    /\ UNCHANGED thr

TotalCalls == Len(log["k1"]) + Len(log["k2"])

\* K(*args): one acquire call on a registry that exists.
Acquire(k, raises) ==
    /\ regs[k].st = "created"
    /\ TotalCalls < MaxCalls
    /\ LET n == ApplyCall(k, raises, regs, rc, handles, log, ctor, admitted, evicted)
       IN  /\ regs' = n.regs
           /\ rc' = n.rc
           /\ handles' = n.handles
           /\ log' = n.log
           /\ ctor' = n.ctor
           /\ admitted' = n.admitted
           /\ evicted' = n.evicted
    /\ UNCHANGED sglvars
    /\ UNCHANGED thr

\* ------------------------------------------------- the singleton variants
\* An identifier, by its leading underscores, its body and its trailing
\* underscores: __singletons is Name(2, "singletons", 0), __call__ is
\* Name(2, "call", 2).
Name(lead, body, trail) == [lead |-> lead, body |-> body, trail |-> trail]
n_singletons == Name(2, "singletons", 0)
n_singleton_callback == Name(2, "singleton_callback", 0)

\* A private name: two or more leading underscores, fewer than two trailing.
Private(n) == n.lead >= 2 /\ n.trail < 2

\* The name the compiler generates for identifier n occurring textually in
\* the definition of class scope ("" outside any class definition).
Mangle(scope, n) ==
    IF scope # "" /\ Private(n) THEN [cls |-> scope, name |-> n]
    ELSE [cls |-> "", name |-> n]

\* Lookup of global identifier n from code inside class scope.
Bound(scope, n, G) == Mangle(scope, n) \in G

\* __singleton_callback(cls, *args): check-then-insert on the table.
singleton_callback(cls, table) ==
    IF table[cls] = NoInst
    THEN [table |-> [table EXCEPT ![cls] = <<cls, 1>>], inst |-> <<cls, 1>>,
          kind |-> "created"]
    ELSE [table |-> table, inst |-> table[cls], kind |-> "existing"]

NameError(table) == [table |-> table, inst |-> NoInst, kind |-> "NameError"]

\* Number of times the product class's __init__ runs in one construction
\* call that returned an instance: SingletonSuper replaces __new__, so
\* type.__call__ still runs __init__ on whatever __new__ returns;
\* SingletonMeta replaces type.__call__ itself and SingletonFactory calls the
\* callback directly, and the callback only uses object.__new__.
InitRuns(via, o) ==
    IF via = "SingletonSuper" /\ o.kind \in {"created", "existing"} THEN 1 ELSE 0

Attempt(via, who, cls, o) ==
    [via |-> via, who |-> who, cls |-> cls, kind |-> o.kind, inst |-> o.inst,
     inits |-> InitRuns(via, o)]

\* line 4: __singletons = {}
ExecSingletons ==
    /\ ~Bound("", n_singletons, globals)
    /\ globals' = globals \cup {Mangle("", n_singletons)}
    /\ singletons' = [c \in Classes |-> NoInst]
    /\ UNCHANGED <<classdef, sfactory, slog>>
    /\ UNCHANGED limvars
    /\ UNCHANGED thr

\* line 6: def __singleton_callback(cls, *args, **kwargs)
ExecCallbackDef ==
    /\ Bound("", n_singletons, globals)
    /\ ~Bound("", n_singleton_callback, globals)
    /\ globals' = globals \cup {Mangle("", n_singleton_callback)}
    /\ UNCHANGED <<singletons, classdef, sfactory, slog>>
    /\ UNCHANGED limvars
    /\ UNCHANGED thr

\* class SingletonMeta / class SingletonSuper: the class body evaluates the
\* identifier __singleton_callback, which occurs inside the class definition.
ClassStmtBody(v) ==
    /\ v \in {"SingletonMeta", "SingletonSuper"}
    /\ Bound("", n_singleton_callback, globals)
    /\ classdef[v] = "pending"
    /\ IF Bound(v, n_singleton_callback, globals)
       THEN /\ classdef' = [classdef EXCEPT ![v] = "defined"]
            /\ globals' = globals \cup {Mangle("", Name(0, v, 0))}
       ELSE /\ classdef' = [classdef EXCEPT ![v] = "NameError"]
            /\ globals' = globals
    /\ UNCHANGED <<singletons, sfactory, slog>>
    /\ UNCHANGED limvars
    /\ UNCHANGED thr

\* class SingletonFactory: its body only defines __slots__ and two methods.
ClassSingletonFactory ==
    /\ Bound("", n_singleton_callback, globals)
    /\ classdef["SingletonFactory"] = "pending"
    /\ classdef' = [classdef EXCEPT !["SingletonFactory"] = "defined"]
    /\ globals' = globals \cup {Mangle("", Name(0, "SingletonFactory", 0))}
    /\ UNCHANGED <<singletons, sfactory, slog>>
    /\ UNCHANGED limvars
    /\ UNCHANGED thr

\* c(*args) for a class c declared with metaclass=SingletonMeta, or as a
\* subclass of SingletonSuper: the declaration needs the variant's name.
ConstructVia(v, c) ==
    /\ v \in {"SingletonMeta", "SingletonSuper"}
    /\ classdef[v] # "pending"
    /\ Len(slog) < MaxAttempts
    /\ LET o == IF Bound("", Name(0, v, 0), globals)
                THEN singleton_callback(c, singletons)
                ELSE NameError(singletons)
       IN  /\ singletons' = o.table
           /\ slog' = Append(slog, Attempt(v, c, c, o))
    /\ UNCHANGED <<globals, classdef, sfactory>>
    /\ UNCHANGED limvars
    /\ UNCHANGED thr

\* f = SingletonFactory(c)
SingletonFactory__init__(f, c) ==
    /\ Bound("", Name(0, "SingletonFactory", 0), globals)
    /\ sfactory[f] = "none"
    /\ sfactory' = [sfactory EXCEPT ![f] = c]
    /\ UNCHANGED <<globals, singletons, classdef, slog>>
    /\ UNCHANGED limvars
    /\ UNCHANGED thr

\* f(*args): the method body names __singleton_callback inside the class
\* definition of SingletonFactory.
SingletonFactory__call__(f) ==
    /\ sfactory[f] # "none"
    /\ Len(slog) < MaxAttempts
    /\ LET o == IF Bound("SingletonFactory", n_singleton_callback, globals)
                THEN singleton_callback(sfactory[f], singletons)
                ELSE NameError(singletons)
       IN  /\ singletons' = o.table
           /\ slog' = Append(slog, Attempt("SingletonFactory", f, sfactory[f], o))
    /\ UNCHANGED <<globals, classdef, sfactory>>
    /\ UNCHANGED limvars
    /\ UNCHANGED thr

NextSingleton ==
    \/ ExecSingletons
    \/ ExecCallbackDef
    \/ \E v \in Variants : ClassStmtBody(v)
    \/ ClassSingletonFactory
    \/ \E v \in Variants, c \in Classes : ConstructVia(v, c)
    \/ \E f \in Factories, c \in Classes : SingletonFactory__init__(f, c)
    \/ \E f \in Factories : SingletonFactory__call__(f)

SpecSingleton == Init /\ [][NextSingleton]_vars

\* ------------------------------- concurrent singleton construction calls
SStarted == Len(slog) + Cardinality({t \in Threads : thr[t].pc # "idle"})
TIndex(t) == IF t = "t1" THEN 1 ELSE 2

\* Thread t begins a construction call through variant v: who is the class
\* called (SingletonMeta, SingletonSuper) or the factory object called.
SBegin(t, v, who) ==
    /\ thr[t].pc = "idle"
    /\ SStarted < MaxAttempts
    /\ IF v = "SingletonFactory"
       THEN /\ who \in Factories /\ sfactory[who] # "none"
            /\ thr' = [thr EXCEPT ![t] = [Idle EXCEPT !.pc = "lookup", !.via = v,
                                          !.who = who, !.cls = sfactory[who]]]
       ELSE /\ who \in Classes /\ classdef[v] # "pending"
            /\ thr' = [thr EXCEPT ![t] = [Idle EXCEPT !.pc = "lookup", !.via = v,
                                          !.who = who, !.cls = who]]
    /\ UNCHANGED sglvars
    /\ UNCHANGED limvars

\* One step of thread t inside its construction call: the lookup of the
\* name the call needs, then the membership test (line 7), the creation
\* (line 8) and the insert and return (lines 9-10), or the return of the
\* table's entry (line 11).
SStep(t) ==
    LET c == thr[t]
        resolved == IF c.via = "SingletonFactory"
                    THEN Bound("SingletonFactory", n_singleton_callback, globals)
                    ELSE Bound("", Name(0, c.via, 0), globals)
        done(o) == /\ slog' = Append(slog, Attempt(c.via, c.who, c.cls, o))
                   /\ thr' = [thr EXCEPT ![t] = Idle]
    IN  /\ c.pc \in {"lookup", "test", "create", "insert"}
        /\ IF c.pc = "lookup"
           THEN IF resolved
                THEN /\ thr' = [thr EXCEPT ![t].pc = "test"]
                     /\ UNCHANGED <<slog, singletons>>
                ELSE /\ done(NameError(singletons))
                     /\ UNCHANGED singletons
           ELSE IF c.pc = "test"
           THEN IF singleton_callback(c.cls, singletons).kind = "created"
                THEN /\ thr' = [thr EXCEPT ![t].pc = "create"]
                     /\ UNCHANGED <<slog, singletons>>
                ELSE /\ done(singleton_callback(c.cls, singletons))
                     /\ UNCHANGED singletons
           ELSE IF c.pc = "create"
           THEN /\ thr' = [thr EXCEPT ![t].pc = "insert",
                                      ![t].inst = <<c.cls, 2 * Len(slog) + TIndex(t)>>]
                /\ UNCHANGED <<slog, singletons>>
           ELSE /\ singletons' = [singletons EXCEPT ![c.cls] = c.inst]
                /\ done([table |-> singletons, inst |-> c.inst, kind |-> "created"])
        /\ UNCHANGED <<globals, classdef, sfactory>>
        /\ UNCHANGED limvars

NextSingletonThreads ==
    \/ ExecSingletons
    \/ ExecCallbackDef
    \/ \E v \in Variants : ClassStmtBody(v)
    \/ ClassSingletonFactory
    \/ \E f \in Factories, c \in Classes : SingletonFactory__init__(f, c)
    \/ \E t \in Threads, v \in Variants, who \in Classes \cup Factories : SBegin(t, v, who)
    \/ \E t \in Threads : SStep(t)

SpecSingletonThreads == Init /\ [][NextSingletonThreads]_vars

\* ------------------------------------------- the two styles side by side
\* k1 is a LimitonMeta class and k2 a LimitonFactory with the same options.
PairCreate(m, p) ==
    /\ regs["k1"].st = "undefined" /\ regs["k2"].st = "undefined"
    /\ regs' = [regs EXCEPT !["k1"] = LimitonMeta__new__(m, p),
                            !["k2"] = LimitonFactory__init__(m, p)]
    /\ UNCHANGED <<rc, handles, log, ctor, admitted, evicted>>
    /\ UNCHANGED sglvars
    /\ UNCHANGED thr

\* The same acquire call, with the same constructor behaviour, on both.
PairAcquire(raises) ==
    /\ regs["k1"].st = "created" /\ regs["k2"].st = "created"
    /\ Len(log["k1"]) < MaxCalls
    /\ LET n1 == ApplyCall("k1", raises, regs, rc, handles, log, ctor, admitted, evicted)
           n == ApplyCall("k2", raises, n1.regs, n1.rc, n1.handles, n1.log, n1.ctor,
                          n1.admitted, n1.evicted)
       IN  /\ regs' = n.regs
           /\ rc' = n.rc
           /\ handles' = n.handles
           /\ log' = n.log
           /\ ctor' = n.ctor
           /\ admitted' = n.admitted
           /\ evicted' = n.evicted
    /\ UNCHANGED sglvars
    /\ UNCHANGED thr

\* ----------------------------------------- concurrent acquire calls on k1
\* Calls begun so far: the finished ones and the ones threads are inside.
Started == TotalCalls + Cardinality({t \in Threads : thr[t].pc # "idle"})

\* Thread t enters K(*args) and evaluates the capacity test (lines 60 / 87).
\* When the test passes the thread goes on to construct; otherwise the call
\* ends here, with the existing instance or with IndexError.
Check(t, raises) ==
    /\ thr[t].pc = "idle"
    /\ regs["k1"].st = "created"
    /\ Started < MaxCalls
    /\ IF Call(regs["k1"], NoInst, FALSE).kind = "new"
       THEN /\ thr' = [thr EXCEPT ![t] = [Idle EXCEPT !.pc = "construct",
                                                      !.raises = raises]]
            /\ UNCHANGED limvars
       ELSE LET n == ApplyCall("k1", raises, regs, rc, handles, log, ctor,
                               admitted, evicted)
            IN  /\ regs' = n.regs
                /\ rc' = n.rc
                /\ handles' = n.handles
                /\ log' = n.log
                /\ ctor' = n.ctor
                /\ admitted' = n.admitted
                /\ evicted' = n.evicted
                /\ UNCHANGED thr
    /\ UNCHANGED sglvars

\* Thread t runs the constructor (lines 61 / 88): it raises, or it yields a
\* new instance held by the thread's local variable.
Construct(t) ==
    /\ thr[t].pc = "construct"
    /\ ctor' = [ctor EXCEPT !["k1"] = @ + 1]
    /\ IF thr[t].raises
       THEN /\ log' = [log EXCEPT !["k1"] =
                          Append(@, [kind |-> "ctor_error", inst |-> NoInst,
                                     invoked |-> TRUE,
                                     before |-> regs["k1"].refs,
                                     after |-> regs["k1"].refs])]
            /\ thr' = [thr EXCEPT ![t] = Idle]
            /\ rc' = rc
       ELSE /\ thr' = [thr EXCEPT ![t].pc = "append",
                                  ![t].inst = <<"k1", ctor["k1"] + 1>>]
            /\ rc' = [rc EXCEPT ![<<"k1", ctor["k1"] + 1>>] = 1]
            /\ log' = log
    /\ UNCHANGED <<regs, handles, admitted, evicted>>
    /\ UNCHANGED sglvars

\* Thread t appends its instance and returns the proxy (lines 62-63 / 89-90).
AppendStep(t) ==
    /\ thr[t].pc = "append"
    /\ LET old == regs["k1"].refs
           new == deque_append(old, thr[t].inst, regs["k1"].maxlen)
       IN  /\ regs' = [regs EXCEPT !["k1"].refs = new]
           /\ rc' = RefsAfterAdmit(rc, old, new, thr[t].inst)
           /\ handles' = [handles EXCEPT !["k1"] = @ \cup {thr[t].inst}]
           /\ log' = [log EXCEPT !["k1"] =
                         Append(@, [kind |-> "new", inst |-> thr[t].inst,
                                    invoked |-> TRUE, before |-> old, after |-> new])]
           /\ admitted' = [admitted EXCEPT !["k1"] = @ + 1]
           /\ evicted' = [evicted EXCEPT !["k1"] =
                             @ + (IF Len(old) = regs["k1"].maxlen THEN 1 ELSE 0)]
    /\ thr' = [thr EXCEPT ![t] = Idle]
    /\ UNCHANGED ctor
    /\ UNCHANGED sglvars

NextThreads ==
    \/ \E m \in MaxlenValues, p \in PumpValues : DefineClass("k1", m, p)
    \/ \E m \in MaxlenValues, p \in PumpValues : MakeFactory("k1", m, p)
    \/ \E t \in Threads, raises \in BOOLEAN : Check(t, raises)
    \/ \E t \in Threads : Construct(t)
    \/ \E t \in Threads : AppendStep(t)

SpecThreads == Init /\ [][NextThreads]_vars

NextPair ==
    \/ \E m \in MaxlenValues, p \in PumpValues : PairCreate(m, p)
    \/ \E raises \in BOOLEAN : PairAcquire(raises)

SpecPair == Init /\ [][NextPair]_vars

Next ==
    \/ \E k \in Keys, m \in MaxlenValues, p \in PumpValues : DefineClass(k, m, p)
    \/ \E k, b \in Keys, m \in MaxlenValues, p \in PumpValues : DefineSubclass(k, b, m, p)
    \/ \E k \in Keys, m \in MaxlenValues, p \in PumpValues : MakeFactory(k, m, p)
    \/ \E k \in Keys, raises \in BOOLEAN : Acquire(k, raises)

Spec == Init /\ [][Next]_vars

\* ================================================================ claims
Created(k) == regs[k].st = "created"
Min(a, b) == IF a < b THEN a ELSE b
NoRaise(k, i) == \A j \in 1..i : log[k][j].kind # "ctor_error"
Ordinals(refs) == [j \in DOMAIN refs |-> refs[j][2]]

\* C1: in every reachable state a registry that exists has capacity >= 1 and
\* holds at most capacity resident instances, in both overflow modes and after
\* successful and failing acquire calls alike.
C1_OccupancyBounded ==
    \A k \in Keys : Created(k) =>
        /\ regs[k].maxlen >= 1
        /\ Len(regs[k].refs) <= regs[k].maxlen

\* A PUMP registry of capacity >= 2 that admitted an instance at full occupancy.
C1_Witness ==
    \E k \in Keys : /\ Created(k) /\ regs[k].pump /\ regs[k].maxlen >= 2
                    /\ Len(regs[k].refs) = regs[k].maxlen
                    /\ \E i \in DOMAIN log[k] :
                          /\ log[k][i].kind = "new"
                          /\ Len(log[k][i].before) = regs[k].maxlen

\* C2: in a registry with capacity 1 and mode REJECT, of either style, every
\* acquire after the first returns the instance of the first call without
\* raising and without changing the slots, and the constructor is invoked
\* exactly once over the whole call sequence (stated for call sequences in
\* which the constructor itself does not raise).
C2_SingletonLaw ==
    \A k \in Keys :
        (Created(k) /\ regs[k].maxlen = 1 /\ ~regs[k].pump /\ NoRaise(k, Len(log[k]))) =>
            /\ \A i \in DOMAIN log[k] : i > 1 =>
                  /\ log[k][i].kind = "existing"
                  /\ log[k][i].inst = log[k][1].inst
                  /\ log[k][i].after = log[k][i].before
            /\ (Len(log[k]) >= 1 => ctor[k] = 1)

\* C3: in a REJECT registry with capacity N > 1, an acquire below capacity
\* invokes the constructor and appends the new instance at the tail; an
\* acquire at occupancy N raises IndexError, does not invoke the constructor
\* and leaves the slots as they were; when no constructor raises, calls
\* 1..N are the admitting ones and call N+1 is the failing one.
C3_RejectAtCapacity ==
    \A k \in Keys : (Created(k) /\ ~regs[k].pump /\ regs[k].maxlen > 1) =>
        \A i \in DOMAIN log[k] :
            LET e == log[k][i]
                N == regs[k].maxlen
            IN  /\ IF Len(e.before) < N
                   THEN /\ e.invoked
                        /\ \/ e.kind = "ctor_error" /\ e.after = e.before
                           \/ /\ e.kind = "new"
                              /\ e.inst \notin Range(e.before)
                              /\ e.after = Append(e.before, e.inst)
                   ELSE /\ e.kind = "IndexError"
                        /\ ~e.invoked
                        /\ e.after = e.before
                        /\ Len(e.after) = N
                /\ NoRaise(k, i) =>
                      /\ Len(e.before) = Min(i - 1, N)
                      /\ (i <= N => e.kind = "new")
                      /\ (i = N + 1 => e.kind = "IndexError")

\* N admitting calls followed by the failing call N+1, on a registry with N >= 2.
C3_Witness ==
    \E k \in Keys : /\ Created(k) /\ ~regs[k].pump /\ regs[k].maxlen > 1
                    /\ Len(log[k]) = regs[k].maxlen + 1
                    /\ NoRaise(k, Len(log[k]))
                    /\ log[k][Len(log[k])].kind = "IndexError"
                    /\ Len(regs[k].refs) = regs[k].maxlen

\* C4: in a PUMP registry of capacity N no acquire raises IndexError or
\* reuses an instance: every call invokes the constructor and, unless the
\* constructor raises, admits a new instance; an admission at full occupancy
\* discards exactly the oldest resident instance; after k admissions the
\* slots hold the last min(k, N) admitted instances in admission order.
C4_PumpKeepsNewest ==
    \A k \in Keys : (Created(k) /\ regs[k].pump) =>
        LET N == regs[k].maxlen
            held == Min(admitted[k], N)
        IN  /\ \A i \in DOMAIN log[k] :
                  LET e == log[k][i]
                  IN  /\ e.kind \in {"new", "ctor_error"}
                      /\ e.invoked
                      /\ e.kind = "new" =>
                            e.after = IF Len(e.before) = N
                                      THEN Append(Tail(e.before), e.inst)
                                      ELSE Append(e.before, e.inst)
            /\ NoRaise(k, Len(log[k])) => admitted[k] = Len(log[k])
            /\ regs[k].refs = [j \in 1..held |-> <<k, admitted[k] - held + j>>]

\* Scenario C: capacity 2, three admissions, slots hold the second and third.
C4_Witness ==
    \E k \in Keys : /\ Created(k) /\ regs[k].pump /\ regs[k].maxlen = 2
                    /\ admitted[k] = 3
                    /\ regs[k].refs = << <<k, 2>>, <<k, 3>> >>

\* C5: a handle is valid (its instance is alive) exactly when the instance it
\* refers to is resident in the slots of its registry, and a handle that has
\* expired stays expired after every later step.
C5_HandlesNonOwning ==
    /\ [](\A k \in Keys : \A h \in handles[k] :
              (rc[h] > 0) <=> (h \in Range(regs[k].refs)))
    /\ [][\A k \in Keys : \A h \in handles[k] : rc[h] = 0 => rc'[h] = 0]_vars

\* A handle whose instance was evicted, next to a handle that is still valid.
C5_Witness ==
    \E k \in Keys : \E h1, h2 \in handles[k] :
        /\ rc[h1] = 0 /\ h1 \notin Range(regs[k].refs)
        /\ rc[h2] > 0 /\ h2 \in Range(regs[k].refs)

\* C6: creating a registry of either style with an integer capacity < 1
\* raises ValueError and leaves no registry: nothing is ever acquired from
\* it; with an integer capacity >= 1 the registry exists with that capacity,
\* and its slots are empty when it is created.
C6_CapacityValidated ==
    /\ [](\A k \in Keys : (regs[k].st # "undefined" /\ regs[k].given.t = "int") =>
              IF regs[k].given.v < 1
              THEN /\ regs[k].st = "failed" /\ regs[k].err = "ValueError"
                   /\ log[k] = <<>> /\ handles[k] = {} /\ regs[k].refs = <<>>
                   /\ ctor[k] = 0
              ELSE /\ regs[k].st = "created"
                   /\ regs[k].maxlen = regs[k].given.v)
    /\ [][\A k \in Keys : (regs[k].st = "undefined" /\ regs'[k].st = "created") =>
              regs'[k].refs = <<>>]_vars

\* A class rejected for capacity 0 and a factory rejected for a negative one.
C6_Witness ==
    \E k1, k2 \in Keys :
        /\ regs[k1].st = "failed" /\ regs[k1].style = "meta"
        /\ regs[k1].given = [t |-> "int", v |-> 0]
        /\ regs[k2].st = "failed" /\ regs[k2].style = "factory"
        /\ regs[k2].given = [t |-> "int", v |-> -1]

\* C7: an acquire call that fails, because the constructor raises or because
\* IndexError is raised, leaves the registry (slots, capacity, overflow mode),
\* the reference counts and the issued handles exactly as they were.
C7_AllOrNothing ==
    [][\A k \in Keys :
          (/\ Len(log'[k]) = Len(log[k]) + 1
           /\ log'[k][Len(log'[k])].kind \in {"ctor_error", "IndexError"}) =>
              /\ regs'[k] = regs[k]
              /\ rc' = rc
              /\ handles'[k] = handles[k]
              /\ admitted'[k] = admitted[k]]_vars

\* A constructor failure under PUMP at full occupancy, with nothing evicted.
C7_Witness ==
    \E k \in Keys : /\ Created(k) /\ regs[k].pump
                    /\ Len(log[k]) >= 1
                    /\ LET e == log[k][Len(log[k])]
                       IN  /\ e.kind = "ctor_error"
                           /\ Len(e.before) = regs[k].maxlen
                           /\ regs[k].refs = e.before

\* C8: the occupancy of a registry equals the number of admissions minus the
\* number of admissions made at full occupancy (the PUMP evictions); calls
\* that reuse the singleton or fail change neither count.
C8_OccupancyAccounting ==
    \A k \in Keys : Created(k) =>
        /\ Len(regs[k].refs) = admitted[k] - evicted[k]
        /\ admitted[k] = Cardinality({i \in DOMAIN log[k] : log[k][i].kind = "new"})
        /\ evicted[k] = Cardinality({i \in DOMAIN log[k] :
                                        /\ log[k][i].kind = "new"
                                        /\ Len(log[k][i].before) = regs[k].maxlen})

\* A registry of capacity >= 2 with evictions, and one with a reusing or failing call.
C8_Witness ==
    /\ \E k \in Keys : Created(k) /\ regs[k].maxlen >= 2 /\ evicted[k] >= 1
    /\ \E k \in Keys : /\ Created(k)
                       /\ \E i \in DOMAIN log[k] :
                             log[k][i].kind \in {"existing", "IndexError", "ctor_error"}

\* C9: a LimitonMeta class (k1) and a LimitonFactory (k2) created with the
\* same options and given the same calls agree at every step: both exist or
\* both fail, every call has the same kind of result, and they have the same
\* number of constructor invocations and the same slots sequence.
C9_SameContract ==
    /\ regs["k1"].st = regs["k2"].st
    /\ regs["k1"].maxlen = regs["k2"].maxlen
    /\ regs["k1"].pump = regs["k2"].pump
    /\ Len(log["k1"]) = Len(log["k2"])
    /\ \A i \in DOMAIN log["k1"] : log["k1"][i].kind = log["k2"][i].kind
    /\ ctor["k1"] = ctor["k2"]
    /\ Ordinals(regs["k1"].refs) = Ordinals(regs["k2"].refs)

\* C10: every construction call through SingletonMeta, SingletonSuper or a
\* SingletonFactory returns the instance held in the shared table for its
\* class; the first call for a class creates it and every later call returns
\* it without creating another; the entries of other classes are untouched.
C10_OneInstancePerClass ==
    /\ \A i \in DOMAIN slog :
          LET e == slog[i]
              first == \A j \in 1..(i - 1) : slog[j].cls # e.cls
          IN  /\ e.kind \in {"created", "existing"}
              /\ e.inst = singletons[e.cls]
              /\ (e.kind = "created") <=> first
    /\ \A c \in Classes :
          (\A i \in DOMAIN slog : slog[i].cls # c) => singletons[c] = NoInst


\* C11: over any sequence of construction calls through the three singleton
\* variants, every call returns the single instance of its class, the
\* initializer of that instance runs at most once, and it never runs on a
\* call after the first one for the class.
C11_NoReinitialization ==
    \A i \in DOMAIN slog :
        LET e == slog[i]
            first == \A j \in 1..(i - 1) : slog[j].cls # e.cls
        IN  /\ e.kind \in {"created", "existing"}
            /\ e.inst = singletons[e.cls]
            /\ ~first => e.inits = 0
            /\ Cardinality({j \in 1..i : slog[j].cls = e.cls /\ slog[j].inits > 0}) <= 1

\* C12: when several threads call acquire concurrently on one REJECT-mode
\* registry of capacity N, at most N instances are constructed and admitted
\* in total, and every instance that became resident is still resident.
C12_AtomicAcquire ==
    (Created("k1") /\ ~regs["k1"].pump) =>
        /\ admitted["k1"] <= regs["k1"].maxlen
        /\ evicted["k1"] = 0
        /\ \A i \in DOMAIN log["k1"] :
              log["k1"][i].kind = "new" => log["k1"][i].inst \in Range(regs["k1"].refs)

\* C18: with the capacity test, the construction and the append of
\* concurrent acquire calls interleaved freely, the registry never holds
\* more than capacity instances, in either overflow mode: no append ever
\* leaves the slots longer than the capacity.
C18_BoundSurvivesRaces ==
    Created("k1") =>
        /\ Len(regs["k1"].refs) <= regs["k1"].maxlen
        /\ \A i \in DOMAIN log["k1"] : Len(log["k1"][i].after) <= regs["k1"].maxlen

\* Two threads passed the capacity test of a REJECT registry together, so
\* more instances were appended than the capacity, and the slots are full.
C18_Witness ==
    /\ Created("k1") /\ ~regs["k1"].pump
    /\ admitted["k1"] > regs["k1"].maxlen
    /\ Len(regs["k1"].refs) = regs["k1"].maxlen
    /\ \A t \in Threads : thr[t].pc = "idle"

\* The instances of key k that were resident once and are not any more.
Gone(k) == {<<k, j>> : j \in 1..admitted[k]} \ Range(regs[k].refs)
IsPrefix(a, b) == Len(a) <= Len(b) /\ SubSeq(b, 1, Len(a)) = a

\* C13: in sequential use a REJECT registry never evicts: its slots only grow
\* by appending at the tail, so every resident instance keeps its position;
\* in either mode an instance enters the slots only when it is newly
\* constructed, and an instance that left the slots never returns.
C13_EvictionOnlyUnderPump ==
    /\ [](\A k \in Keys : (Created(k) /\ ~regs[k].pump) =>
              Gone(k) = {} /\ evicted[k] = 0)
    /\ [][\A k \in Keys : Created(k) =>
              /\ ~regs[k].pump => IsPrefix(regs[k].refs, regs'[k].refs)
              /\ \A i \in Gone(k) : i \notin Range(regs'[k].refs)
              /\ \A i \in Range(regs'[k].refs) \ Range(regs[k].refs) :
                    i[2] > admitted[k]
              /\ Len(regs'[k].refs) = Cardinality(Range(regs'[k].refs))]_vars

\* A REJECT registry that kept its instance through a later acquire, next to
\* a PUMP registry that evicted one.
C13_Witness ==
    \E k1, k2 \in Keys :
        /\ Created(k1) /\ ~regs[k1].pump
        /\ Len(regs[k1].refs) >= 1 /\ Len(log[k1]) > admitted[k1]
        /\ Created(k2) /\ regs[k2].pump /\ Gone(k2) # {}

\* C14: a capacity value that is not an int is coerced with __index__; a
\* value that coerces to an integer >= 1 is accepted with that capacity, and
\* every other value, non-positive or not coercible, is rejected with
\* ValueError and with no other error.
C14_CapacityCoerced ==
    \A k \in Keys : regs[k].st # "undefined" =>
        LET g == regs[k].given
            coercible == g.t \in {"absent", "int", "index"}
            val == IF g.t = "absent" THEN 1 ELSE g.v
        IN  IF coercible /\ val >= 1
            THEN regs[k].st = "created" /\ regs[k].maxlen = val
            ELSE regs[k].st = "failed" /\ regs[k].err = "ValueError"

\* C16: in a registry with capacity 1 and mode PUMP every acquire invokes the
\* constructor and never returns the existing instance; each admission
\* replaces the resident instance, so the slots hold exactly the most
\* recently admitted one.
C16_PumpBeforeReuse ==
    \A k \in Keys : (Created(k) /\ regs[k].pump /\ regs[k].maxlen = 1) =>
        /\ \A i \in DOMAIN log[k] :
              LET e == log[k][i]
              IN  /\ e.invoked
                  /\ e.kind # "existing" /\ e.kind # "IndexError"
                  /\ e.kind = "new" => (e.inst \notin Range(e.before) /\ e.after = <<e.inst>>)
        /\ ctor[k] = Len(log[k])
        /\ regs[k].refs = IF admitted[k] = 0 THEN <<>> ELSE << <<k, admitted[k]>> >>

\* A capacity-1 PUMP class whose second instance replaced the first.
C16_Witness ==
    \E k \in Keys : /\ Created(k) /\ regs[k].pump /\ regs[k].maxlen = 1
                    /\ regs[k].style = "meta"
                    /\ admitted[k] >= 2
                    /\ <<k, 1>> \notin Range(regs[k].refs)

\* C17: once a REJECT registry with capacity N > 1 holds N instances, every
\* later acquire on it raises IndexError and leaves its slots as they are,
\* so it stays full and a retry never succeeds.
C17_FullIsAbsorbing ==
    [][\A k \in Keys :
          (/\ Created(k) /\ ~regs[k].pump /\ regs[k].maxlen > 1
           /\ Len(regs[k].refs) = regs[k].maxlen) =>
              /\ regs'[k].refs = regs[k].refs
              /\ Len(log'[k]) = Len(log[k]) + 1 =>
                    /\ log'[k][Len(log'[k])].kind = "IndexError"
                    /\ ~log'[k][Len(log'[k])].invoked]_vars

\* A full REJECT registry on which the failing acquire was retried.
C17_Witness ==
    \E k \in Keys : /\ Created(k) /\ ~regs[k].pump /\ regs[k].maxlen > 1
                    /\ Len(regs[k].refs) = regs[k].maxlen
                    /\ Len(log[k]) >= regs[k].maxlen + 2
                    /\ log[k][Len(log[k])].kind = "IndexError"
                    /\ log[k][Len(log[k]) - 1].kind = "IndexError"

\* C15: an acquire call on one registry entry leaves every other entry as it
\* was (slots, capacity, overflow mode, call history, handles, instances),
\* also when the other entry is the base class of the class called or a
\* second factory; the slots of an entry hold only instances constructed
\* through that entry.
C15_RegistriesIsolated ==
    /\ [](\A k \in Keys : \A i \in Range(regs[k].refs) : i[1] = k)
    /\ [][\A k \in Keys : Len(log'[k]) = Len(log[k]) + 1 =>
              \A j \in Keys \ {k} :
                  /\ regs'[j] = regs[j]
                  /\ log'[j] = log[j]
                  /\ handles'[j] = handles[j]
                  /\ ctor'[j] = ctor[j]
                  /\ admitted'[j] = admitted[j] /\ evicted'[j] = evicted[j]
                  /\ \A i \in Inst : i[1] = j => rc'[i] = rc[i]]_vars

\* A class full at capacity 1 and a class derived from it that went on to
\* admit two instances of its own.
C15_Witness ==
    \E k, b \in Keys :
        /\ Created(k) /\ Created(b) /\ regs[k].base = b
        /\ regs[b].maxlen = 1 /\ Len(regs[b].refs) = 1
        /\ regs[k].maxlen >= 2 /\ Len(regs[k].refs) = 2
        /\ log[k][Len(log[k])].kind = "new"

\* C19: when several threads make construction calls for the same class
\* through SingletonMeta, SingletonSuper or SingletonFactory, every call
\* returns an instance, all calls for one class return the same instance,
\* and at most one instance is created for that class.
C19_SingletonUnderRaces ==
    /\ \A i \in DOMAIN slog : slog[i].kind \in {"created", "existing"}
    /\ \A i, j \in DOMAIN slog : slog[i].cls = slog[j].cls => slog[i].inst = slog[j].inst
    /\ \A c \in Classes :
          Cardinality({i \in DOMAIN slog : slog[i].cls = c /\ slog[i].kind = "created"}) <= 1

====
